---- MODULE Spec2Model ----
(***************************************************************************)
(* The parallel range-download engine of download-manager:                 *)
(* download_with_workers (planner, coordinator), download_range_async      *)
(* (range fetcher), merge_parts (merger) and ChunkProgressBar (progress    *)
(* aggregator), modelled from src/src/download/async_range.rs and          *)
(* src/src/download/progress.rs, and build_download_path of                *)
(* src/src/download/utils.rs.                                              *)
(*                                                                         *)
(* Conventions.                                                            *)
(*  - A file's content is a sequence of bytes; the file system fs is a     *)
(*    function from the paths that exist to their content.                 *)
(*  - The resource is the byte sequence whose byte at offset k is k, so    *)
(*    its bytes are pairwise distinct and any loss, duplication or         *)
(*    reordering of bytes in a file shows in the file's content.           *)
(*  - anyhow errors carry only a message; the model names them by the      *)
(*    error kinds of the specification:                                    *)
(*      "LengthUnknown"     "Content length not available"                 *)
(*      "RangeUnsupported"  "Server doesn't support the `range` header..." *)
(*      "UnexpectedStatus c" "Unexpected status: c"                        *)
(*      "Interrupted"       "Download interrupted."                        *)
(*      "Io"                an error passed on by `?` from reqwest or      *)
(*                          tokio::fs                                      *)
(*      "JoinError"         the outer error of a spawned task (`result??`) *)
(*      "Panic"             the coordinator itself panicked                *)
(*  - u64 arithmetic is modelled modulo U64Modulus. TLC's integers have 32 *)
(*    bits, so the modulus is scaled down to 2^16; every size the bounds   *)
(*    allow is far below it and the only wrap that can occur is 0 - 1.     *)
(***************************************************************************)
EXTENDS Integers, Sequences, FiniteSets, TLC

\* Bounds of the model.
MaxSize == 3
MaxWorkers == 2
MaxSeg == 2
MaxPathSegments == 3

U64Modulus == 2^16

Min(a, b) == IF a < b THEN a ELSE b
Max(a, b) == IF a < b THEN b ELSE a

\* The slice s[from+1 .. from+n] of a sequence (byte offsets from .. from+n-1).
Slice(s, from, n) == [k \in 1..n |-> s[from + k]]

\* The remote resource of n bytes.
Resource(n) == [k \in 1..n |-> k - 1]

\* Content left on disk by somebody else, longer than any resource.
Stale == [k \in 1..(MaxSize + 2) |-> 100 + k]

(***************************************************************************)
(* URLs and paths, utils.rs. A URL is modelled by what build_download_path *)
(* reads of it: whether it cannot be a base (mailto:, data:) and the       *)
(* segments of its path ("https://h/" has the one segment ""). A path is   *)
(* the sequence of its components. An Option is a sequence of length 0     *)
(* (None) or 1 (Some).                                                     *)
(***************************************************************************)
\* Url::path_segments: None for a URL that cannot be a base, otherwise the
\* segments, of which there is at least one.
path_segments(u) == IF u.cannot_be_a_base THEN <<>> ELSE <<u.path>>

\* Iterator::last.
last(segments) == IF Len(segments) = 0 THEN <<>> ELSE <<segments[Len(segments)]>>

\* Option::and_then.
and_then_last(opt) == IF opt = <<>> THEN <<>> ELSE last(opt[1])

\* Option::unwrap_or.
unwrap_or(opt, default) == IF opt = <<>> THEN default ELSE opt[1]

\* Path::join with a relative name: joining "" adds no component.
Join(dir, name) == IF name = "" THEN dir ELSE Append(dir, name)

\* build_download_path, lines 5-11.
build_download_path(u, dir) ==
    Join(dir, unwrap_or(and_then_last(path_segments(u)), "tmp.bin"))

\* The URL and the target directory of the download job.
JobUrl == [cannot_be_a_base |-> FALSE, path |-> <<"pub", "final">>]
JobDir == <<"downloads">>

(***************************************************************************)
(* The final path of the job, and the part file of a range,                *)
(* "<name>.part.<start>-<end>" in target_dir.                              *)
(***************************************************************************)
FinalPath == build_download_path(JobUrl, JobDir)
PartPath(start, end) == <<"part", start, end>>

(***************************************************************************)
(* Range planning, lines 30-42 of download_with_workers. `checked` is the  *)
(* build's overflow-checks setting: with it a u64 underflow panics (the   *)
(* debug profile), without it the subtraction wraps (the release profile). *)
(***************************************************************************)
SubU64(a, b) == (a - b) % U64Modulus
MulU64(a, b) == (a * b) % U64Modulus

ChunkSize(content_len, w) == content_len \div w

RangeStart(i, content_len, w) == MulU64(i, ChunkSize(content_len, w))

RangeEnd(i, content_len, w) ==
    IF i = w - 1
    THEN SubU64(content_len, 1)
    ELSE SubU64(MulU64(i + 1, ChunkSize(content_len, w)), 1)

\* Whether computing range i underflows.
RangeUnderflows(i, content_len, w) ==
    IF i = w - 1
    THEN content_len < 1
    ELSE MulU64(i + 1, ChunkSize(content_len, w)) < 1

\* chunks_array after the loop: position i+1 holds range i.
ChunksArray(content_len, w) ==
    [k \in 1..w |-> <<RangeStart(k - 1, content_len, w), RangeEnd(k - 1, content_len, w)>>]

\* "DivByZero", "Overflow" (a panic) or "Ok".
PlanOutcome(content_len, w, checked) ==
    IF w = 0 THEN "DivByZero"
    ELSE IF checked /\ \E i \in 0..(w - 1) : RangeUnderflows(i, content_len, w)
         THEN "Overflow"
         ELSE "Ok"

(***************************************************************************)
(* ChunkProgressBar, progress.rs. The aggregator is constructed with one   *)
(* entry per worker; Downloading { worker_id } always carries the range's  *)
(* own id and is written "Downloading".                                    *)
(***************************************************************************)
\* ChunkProgressBar::new: every range Pending, every counter 0.
NewChunks(num_chunks) == [i \in 0..(num_chunks - 1) |-> "Pending"]
NewBytesPerChunk(num_chunks) == [i \in 0..(num_chunks - 1) |-> 0]

\* A progress record that stores the final states only.
set_chunk_state_FinalOnly(cs, chunk_id, state) ==
    IF chunk_id \in DOMAIN cs /\ state # "Downloading"
    THEN [cs EXCEPT ![chunk_id] = state] ELSE cs

\* ChunkProgressBar::set_chunk_state: last writer wins, an unknown id is ignored.
set_chunk_state(cs, chunk_id, state) ==
    IF chunk_id \in DOMAIN cs THEN [cs EXCEPT ![chunk_id] = state] ELSE cs

\* ChunkProgressBar::update_chunk_bytes: stores the value it is given.
update_chunk_bytes(bs, chunk_id, bytes) ==
    IF chunk_id \in DOMAIN bs THEN [bs EXCEPT ![chunk_id] = bytes] ELSE bs

(***************************************************************************)
(* The file system and the HTTP server (the environment).                  *)
(***************************************************************************)
\* OpenOptions::new().create(true).write(true).open(path): creates an empty file
\* when none exists and leaves an existing file's content as it is.
OpenCreateWrite(files, path) ==
    IF path \in DOMAIN files
    THEN files
    ELSE [p \in DOMAIN files \cup {path} |-> IF p = path THEN <<>> ELSE files[p]]

\* A write of `data` through a handle whose cursor is at `pos`: the bytes at
\* pos .. pos+Len(data)-1 are replaced, the file grows as needed, the rest stays.
WriteAt(content, pos, data) ==
    [k \in 1..Max(Len(content), pos + Len(data)) |->
        IF k > pos /\ k <= pos + Len(data) THEN data[k - pos] ELSE content[k]]

\* tokio::fs::remove_file.
RemoveFile(files, path) == [p \in DOMAIN files \ {path} |-> files[p]]

\* Whether the server can answer "Range: bytes=start-end" with 206.
Satisfiable(res, start) == start < Len(res)

\* The body of a 206 answer: the bytes start .. min(end, len-1) of the resource.
ServerBody(res, start, end) ==
    Slice(res, start, Min(end, Len(res) - 1) - start + 1)

\* The statuses the server may answer with.
Statuses == {206, 200, 416, 500}

VARIABLES
    url,              \* argument url
    target_dir,       \* argument target_dir
    final_path,       \* merge_parts' local final_path (<<>>: not built yet)
    workers,          \* argument workers: u8
    no_cleanup,       \* argument no_cleanup
    resource,         \* the bytes the URL names
    length_reported,  \* whether the server's responses carry a content length
    fs0,              \* the file system when the job starts
    fs,               \* the file system
    interrupted,      \* progress.interrupted, the cancellation flag
    chunks,           \* progress.chunks
    bytes_per_chunk,  \* progress.bytes_per_chunk
    job_pc,           \* where download_with_workers is
    content_length,   \* its local content_length (-1: not read yet)
    chunks_array,     \* its local chunks_array
    tasks,            \* the number of tasks spawned
    f_pc,             \* per task: where download_range_async is
    f_fname,          \* per task: its local fname
    downloaded,       \* per task: its local downloaded, also dest's cursor
    body,             \* per task: the part of the response body not yet read
    f_status,         \* per task: the status of its response (0: no response)
    f_result,         \* per task: what the task returned
    finished,         \* the task ids in the order the tasks finished
    cancelled_mid,    \* the ranges that were mid-stream when the flag was set
    part_paths,       \* merge_parts' argument part_paths
    part_contents,    \* what each of these files held when merge_parts was called
    merged,           \* the number of parts merge_parts has copied
    final_pos,        \* the cursor of merge_parts' final_file
    job_result,       \* what the download function returned
    command,          \* cli: the subcommand
    resume,           \* cli: --resume
    overwrite,        \* cli: --overwrite
    s_fn,             \* the download function Commands::execute has called
    s_pc,             \* where the single-stream function is
    resume_from,      \* its local resume_from
    s_downloaded,     \* its local downloaded
    s_range,          \* its request: -2 none sent, -1 without Range, n "bytes=n-"
    s_status,         \* the status of its response (0: no response)
    s_body            \* the part of its response body not yet read

vars == <<url, target_dir, final_path, workers, no_cleanup, resource, length_reported, fs0, fs, interrupted,
          chunks, bytes_per_chunk, job_pc, content_length, chunks_array, tasks,
          f_pc, f_fname, downloaded, body, f_status, f_result, finished,
          cancelled_mid,
          part_paths, part_contents, merged, final_pos, job_result,
          command, resume, overwrite, s_fn, s_pc, resume_from, s_downloaded,
          s_range, s_status, s_body>>

ChunkIds == 0..(workers - 1)

\* The file systems a job may start in: the final file and the part files the
\* job will name are each absent or left behind with other content.
InitialFiles(res, w) ==
    LET parts == {PartPath(ChunksArray(Len(res), w)[k][1], ChunksArray(Len(res), w)[k][2]) : k \in 1..w}
    IN  { [p \in d |-> Stale] : d \in {{}, {FinalPath}, parts, parts \cup {FinalPath}} }

\* The command line's flags and the locals of the single-stream functions.
single_vars == <<command, resume, overwrite, s_fn, s_pc, resume_from, s_downloaded,
                 s_range, s_status, s_body>>

\* No single-stream function is running: download_with_workers was called directly.
SingleAtRest ==
    /\ command = "none"
    /\ resume = FALSE
    /\ overwrite = FALSE
    /\ s_fn = "none"
    /\ s_pc = "none"
    /\ resume_from = 0
    /\ s_downloaded = 0
    /\ s_range = -2
    /\ s_status = 0
    /\ s_body = <<>>

Init ==
    /\ SingleAtRest
    /\ url = JobUrl
    /\ target_dir = JobDir
    /\ final_path = <<>>
    /\ workers \in 0..MaxWorkers
    /\ no_cleanup \in BOOLEAN
    /\ resource \in {Resource(n) : n \in 0..MaxSize}
    /\ length_reported \in BOOLEAN
    /\ fs0 \in InitialFiles(resource, workers)
    /\ fs = fs0
    /\ interrupted = FALSE
    /\ chunks = NewChunks(workers)
    /\ bytes_per_chunk = NewBytesPerChunk(workers)
    /\ job_pc = "get_content_length"
    /\ content_length = -1
    /\ chunks_array = <<>>
    /\ tasks = 0
    /\ f_pc = [i \in ChunkIds |-> "unspawned"]
    /\ f_fname = [i \in ChunkIds |-> FinalPath]
    /\ downloaded = [i \in ChunkIds |-> 0]
    /\ body = [i \in ChunkIds |-> <<>>]
    /\ f_status = [i \in ChunkIds |-> 0]
    /\ f_result = [i \in ChunkIds |-> "none"]
    /\ finished = <<>>
    /\ cancelled_mid = {}
    /\ part_paths = <<>>
    /\ part_contents = <<>>
    /\ merged = 0
    /\ final_pos = 0
    /\ job_result = "none"

inputs == <<url, target_dir, workers, no_cleanup, resource, length_reported, fs0>>
\* What no step of the job writes: its inputs and the record of the interrupt.
fixed == <<inputs, cancelled_mid, single_vars>>
progress_vars == <<chunks, bytes_per_chunk>>
fetcher_vars == <<f_pc, f_fname, downloaded, body, f_status, f_result, finished>>
merge_vars == <<final_path, part_paths, part_contents, merged, final_pos>>

(***************************************************************************)
(* download_with_workers, the coordinator.                                 *)
(***************************************************************************)
\* A missing content length read as 0 (unwrap_or_default).
ResponseContentLength_OrZero(reported, res) == IF reported THEN Len(res) ELSE 0

\* response.content_length(): None is written -1.
ResponseContentLength(reported, res) == IF reported THEN Len(res) ELSE -1

\* get_content_length, lines 13-19, and its call on line 28: the preliminary
\* GET fails (`?`), or the response carries no content length and the error
\* "Content length not available" is returned, or it carries the length.
GetContentLength ==
    /\ job_pc = "get_content_length"
    /\ \/ /\ job_result' = "Io"
          /\ job_pc' = "done"
          /\ UNCHANGED content_length
       \/ IF ResponseContentLength(length_reported, resource) = -1
          THEN /\ job_result' = "LengthUnknown"
               /\ job_pc' = "done"
               /\ UNCHANGED content_length
          ELSE /\ content_length' = ResponseContentLength(length_reported, resource)
               /\ job_pc' = "plan"
               /\ UNCHANGED job_result
    /\ UNCHANGED <<fixed, fs, interrupted, progress_vars, chunks_array, tasks,
                   fetcher_vars, merge_vars>>

\* The states of the ranges after the planning loop has called
\* set_chunk_state(i, Pending) for every i below w.
PlanChunks(cs, w) ==
    [i \in DOMAIN cs |-> IF i < w THEN set_chunk_state(cs, i, "Pending")[i] ELSE cs[i]]

\* Lines 30-42: chunk_size and the ranges. A division by zero panics in every
\* build; an underflow panics or wraps, as the build has it.
Plan ==
    /\ job_pc = "plan"
    /\ \E checked \in BOOLEAN :
         IF PlanOutcome(content_length, workers, checked) = "Ok"
         THEN /\ chunks' = PlanChunks(chunks, workers)
              /\ chunks_array' = ChunksArray(content_length, workers)
              /\ job_pc' = "spawn"
              /\ UNCHANGED job_result
         ELSE /\ job_result' = "Panic"
              /\ job_pc' = "done"
              /\ UNCHANGED <<chunks, chunks_array>>
    /\ UNCHANGED <<fixed, fs, interrupted, bytes_per_chunk, content_length, tasks,
                   fetcher_vars, merge_vars>>

\* Lines 44-54: one task per range, in the order of chunks_array; the task of
\* position k+1 gets chunk_id k. After the last one the coordinator awaits join_all.
Spawn ==
    /\ job_pc = "spawn"
    /\ tasks < Len(chunks_array)
    /\ f_pc' = [f_pc EXCEPT ![tasks] = "start"]
    /\ tasks' = tasks + 1
    /\ job_pc' = IF tasks + 1 = Len(chunks_array) THEN "join" ELSE "spawn"
    /\ UNCHANGED <<fixed, fs, interrupted, progress_vars, content_length,
                   chunks_array, f_fname, downloaded, body, f_status, f_result, finished,
                   merge_vars, job_result>>

\* A join that yields the tasks in the order they finished.
JoinAll_ByCompletion(spawned, completion) == completion

\* join_all's output order: the tasks in the order they were given to it,
\* whatever the order `completion` in which they finished.
JoinAll(spawned, completion) == [k \in 1..spawned |-> k - 1]

\* A collection that looks at the last result only.
FirstError_LastOnly(ids, results) ==
    IF Len(ids) > 0 /\ results[ids[Len(ids)]] # "Ok" THEN ids[Len(ids)] ELSE -1

\* A collection that goes through all the results and keeps the last error.
FirstError_Overwritten(ids, results) ==
    IF \E k \in 1..Len(ids) : results[ids[k]] # "Ok"
    THEN ids[CHOOSE k \in 1..Len(ids) :
                /\ results[ids[k]] # "Ok"
                /\ \A j \in (k + 1)..Len(ids) : results[ids[j]] = "Ok"]
    ELSE -1

\* A collection that skips the tasks that failed.
FirstError_Ignored(ids, results) == -1

\* The first task, in the order of `ids`, whose result is an error; -1 if none.
FirstError(ids, results) ==
    IF \E k \in 1..Len(ids) : results[ids[k]] # "Ok"
    THEN ids[CHOOSE k \in 1..Len(ids) :
                /\ results[ids[k]] # "Ok"
                /\ \A j \in 1..(k - 1) : results[ids[j]] = "Ok"]
    ELSE -1

\* A join that completes with the first task that finishes.
JoinReady_Any(pcs) == \E i \in DOMAIN pcs : pcs[i] = "done"

\* Line 56, `join_all(tasks).await`: completes when every task has finished.
JoinReady(pcs) == \A i \in DOMAIN pcs : pcs[i] = "done"

\* Lines 56-66: every task has finished; `result??` returns the first error in
\* the order of the results, otherwise the paths are collected in that order
\* and merge_parts is entered.
JoinCollect ==
    /\ job_pc = "join"
    /\ JoinReady(f_pc)
    /\ LET ids == JoinAll(tasks, finished)
           bad == FirstError(ids, f_result)
       IN  IF bad # -1
           THEN /\ job_result' = f_result[bad]
                /\ job_pc' = "done"
                /\ UNCHANGED <<part_paths, part_contents>>
           ELSE /\ part_paths' = [k \in 1..Len(ids) |-> f_fname[ids[k]]]
                /\ part_contents' = [k \in 1..Len(ids) |->
                                        IF f_fname[ids[k]] \in DOMAIN fs
                                        THEN fs[f_fname[ids[k]]] ELSE <<>>]
                /\ job_pc' = "merge_open"
                /\ UNCHANGED job_result
    /\ UNCHANGED <<fixed, fs, interrupted, progress_vars, content_length,
                   chunks_array, tasks, fetcher_vars, final_path, merged, final_pos>>

(***************************************************************************)
(* merge_parts.                                                            *)
(***************************************************************************)
\* Lines 76-82: the final file is opened with create and write, or opening
\* it fails (`?`).
MergeOpen ==
    /\ job_pc = "merge_open"
    /\ final_path' = build_download_path(url, target_dir)
    /\ \/ /\ fs' = OpenCreateWrite(fs, final_path')
          /\ job_pc' = IF Len(part_paths) = 0 THEN "done" ELSE "merge"
          /\ job_result' = IF Len(part_paths) = 0 THEN "Ok" ELSE job_result
       \/ /\ job_result' = "Io"
          /\ job_pc' = "done"
          /\ UNCHANGED fs
    /\ final_pos' = 0
    /\ merged' = 0
    /\ UNCHANGED <<fixed, interrupted, progress_vars, content_length, chunks_array,
                   tasks, fetcher_vars, part_paths, part_contents>>

\* A merger that removes the parts whatever the flag says.
RemovesPart_Always(nc) == TRUE

\* Line 88, `if !no_cleanup`: whether the part just copied is removed.
RemovesPart(nc) == ~nc

\* What merge_parts does after a part: the next turn of the loop, or
\* Ok(final_path) on line 93 after the last part.
MergeAdvance ==
    /\ merged' = merged + 1
    /\ job_pc' = IF merged + 1 = Len(part_paths) THEN "done" ELSE "merge"
    /\ job_result' = IF merged + 1 = Len(part_paths) THEN "Ok" ELSE job_result

\* A merger that drops the error of a failed file operation.
MergeFail_Swallowed ==
    /\ job_result' = "Ok"
    /\ job_pc' = "done"
    /\ UNCHANGED merged

\* merge_parts returns the error of a failed file operation (`?`).
MergeFail ==
    /\ job_result' = "Io"
    /\ job_pc' = "done"
    /\ UNCHANGED merged

\* Lines 84-88, one turn of the loop up to the copy: the part is opened (an
\* error when it is not there) and copied to the cursor of final_file. The
\* copy goes through, or fails after n bytes of the part have been written.
\* With no_cleanup the turn is over, otherwise the part is removed next.
MergePart ==
    /\ job_pc = "merge"
    /\ merged < Len(part_paths)
    /\ LET part_path == part_paths[merged + 1]
       IN  IF part_path \notin DOMAIN fs
           THEN /\ MergeFail
                /\ UNCHANGED <<fs, final_pos>>
           ELSE \/ /\ fs' = [fs EXCEPT ![final_path] =
                                  WriteAt(fs[final_path], final_pos, fs[part_path])]
                   /\ final_pos' = final_pos + Len(fs[part_path])
                   /\ IF RemovesPart(no_cleanup)
                      THEN /\ job_pc' = "merge_remove"
                           /\ UNCHANGED <<merged, job_result>>
                      ELSE MergeAdvance
                \/ \E n \in 0..Len(fs[part_path]) :
                     /\ fs' = [fs EXCEPT ![final_path] =
                                    WriteAt(fs[final_path], final_pos,
                                            Slice(fs[part_path], 0, n))]
                     /\ final_pos' = final_pos + n
                     /\ MergeFail
    /\ UNCHANGED <<fixed, interrupted, progress_vars, content_length, chunks_array,
                   tasks, fetcher_vars, final_path, part_paths, part_contents>>

\* Lines 88-90: the part just copied is removed, or removing it fails (`?`).
MergeRemove ==
    /\ job_pc = "merge_remove"
    /\ \/ /\ fs' = RemoveFile(fs, part_paths[merged + 1])
          /\ MergeAdvance
       \/ /\ MergeFail
          /\ UNCHANGED fs
    /\ UNCHANGED <<fixed, interrupted, progress_vars, content_length, chunks_array,
                   tasks, fetcher_vars, final_path, part_paths, part_contents, final_pos>>

(***************************************************************************)
(* download_range_async, the fetcher of range chunk_id. Its arguments      *)
(* start and end are position chunk_id+1 of chunks_array.                  *)
(***************************************************************************)
Start(i) == chunks_array[i + 1][1]
End(i) == chunks_array[i + 1][2]

\* A fetcher whose failure stops the fetchers that are still running.
Finish_StopsSiblings(i, result) ==
    /\ f_result' = [f_result EXCEPT ![i] = result]
    /\ f_pc' = IF result = "Ok"
              THEN [f_pc EXCEPT ![i] = "done"]
              ELSE [j \in DOMAIN f_pc |-> IF f_pc[j] = "unspawned" THEN "unspawned" ELSE "done"]
    /\ body' = [body EXCEPT ![i] = <<>>]
    /\ finished' = Append(finished, i)

\* The task ends with `result`; its response, if any, is dropped with it.
Finish(i, result) ==
    /\ f_result' = [f_result EXCEPT ![i] = result]
    /\ f_pc' = [f_pc EXCEPT ![i] = "done"]
    /\ body' = [body EXCEPT ![i] = <<>>]
    /\ finished' = Append(finished, i)

\* A status match whose 200 arm forgets to mark the range.
StateOnStatus_200Unmarked(status) == IF status \in {206, 200} THEN "Downloading" ELSE "Failed"

\* The state set_chunk_state is called with when a request is answered by
\* `status`; "Downloading" stands for no call.
StateOnStatus(status) == IF status = 206 THEN "Downloading" ELSE "Failed"

\* The error "Unexpected status: <code>", line 139.
UnexpectedStatus(code) ==
    CASE code = 416 -> "UnexpectedStatus 416"
      [] code = 500 -> "UnexpectedStatus 500"
      [] OTHER -> "UnexpectedStatus"

\* A fetcher that reports every unexpected status as 416.
ErrorOnStatus_Always416(status) ==
    IF status = 200 THEN "RangeUnsupported" ELSE UnexpectedStatus(416)

\* The error the fetcher fails with on a status other than 206.
ErrorOnStatus(status) ==
    IF status = 200 THEN "RangeUnsupported" ELSE UnexpectedStatus(status)

\* A fetcher that does not mark the range before it sends the request.
StateOnOpen_Unmarked == "Pending"

\* The state the fetcher sets once its part file is open, line 121.
StateOnOpen == "Downloading"

\* A poll that forgets to mark the range.
StateOnInterrupt_Unmarked == "Downloading"

\* The state the fetcher sets when its poll finds the flag set.
StateOnInterrupt == "Failed"

\* A fetcher that returns its path without marking the range.
StateOnExhausted_Unmarked == "Downloading"

\* The state the fetcher sets when the body stream is exhausted.
StateOnExhausted == "Completed"

\* A fetcher that reports the segment's length instead of the running total.
ReportedBytes_Delta(before, len) == len

\* The value the fetcher hands to update_chunk_bytes after a segment of
\* `len` bytes, `before` being `downloaded` before the segment.
ReportedBytes(before, len) == before + len

\* Lines 105-121: the part file is opened with create and write; an error of
\* the open is returned by `?`; otherwise the range is marked Downloading.
OpenPart(i) ==
    /\ f_pc[i] = "start"
    /\ \/ /\ fs' = OpenCreateWrite(fs, PartPath(Start(i), End(i)))
          /\ f_fname' = [f_fname EXCEPT ![i] = PartPath(Start(i), End(i))]
          /\ downloaded' = [downloaded EXCEPT ![i] = 0]
          /\ chunks' = set_chunk_state(chunks, i, StateOnOpen)
          /\ f_pc' = [f_pc EXCEPT ![i] = "requesting"]
          /\ UNCHANGED <<f_result, finished, body>>
       \/ /\ Finish(i, "Io")
          /\ UNCHANGED <<fs, f_fname, downloaded, chunks>>
    /\ UNCHANGED <<fixed, interrupted, bytes_per_chunk, job_pc, content_length,
                   chunks_array, tasks, f_status, merge_vars,
                   job_result>>

\* Lines 123-142: the ranged GET. Sending fails (`?`), or the server answers
\* with a status: 206 gives the body stream, 200 and every other status mark
\* the range Failed and fail.
SendRequest(i) ==
    /\ f_pc[i] = "requesting"
    /\ \/ /\ Finish(i, "Io")
          /\ UNCHANGED <<chunks, f_status>>
       \/ \E status \in Statuses :
            /\ status = 206 => Satisfiable(resource, Start(i))
            /\ f_status' = [f_status EXCEPT ![i] = status]
            /\ IF status = 206
               THEN /\ body' = [body EXCEPT ![i] = ServerBody(resource, Start(i), End(i))]
                    /\ f_pc' = [f_pc EXCEPT ![i] = "streaming"]
                    /\ UNCHANGED <<chunks, f_result, finished>>
               ELSE /\ chunks' = set_chunk_state(chunks, i, StateOnStatus(status))
                    /\ Finish(i, ErrorOnStatus(status))
    /\ UNCHANGED <<fixed, fs, interrupted, bytes_per_chunk, job_pc, content_length,
                   chunks_array, tasks, f_fname, downloaded, merge_vars, job_result>>

\* Lines 148-155, the branch Some(Ok(chunk)): a segment of n bytes arrives, is
\* written at dest's cursor, and the new total is reported.
StreamChunk(i) ==
    /\ f_pc[i] = "streaming"
    /\ \E n \in 1..Min(MaxSeg, Len(body[i])) :
         /\ fs' = [fs EXCEPT ![f_fname[i]] =
                       WriteAt(fs[f_fname[i]], downloaded[i], Slice(body[i], 0, n))]
         /\ downloaded' = [downloaded EXCEPT ![i] = downloaded[i] + n]
         /\ bytes_per_chunk' =
                update_chunk_bytes(bytes_per_chunk, i, ReportedBytes(downloaded[i], n))
         /\ body' = [body EXCEPT ![i] = Slice(body[i], n, Len(body[i]) - n)]
    /\ UNCHANGED <<fixed, interrupted, chunks, job_pc, content_length, chunks_array,
                   tasks, f_pc, f_fname, f_result, finished, f_status, merge_vars,
                   job_result>>

\* Line 151, `chunk_result?`: reading the body fails.
StreamError(i) ==
    /\ f_pc[i] = "streaming"
    /\ Finish(i, "Io")
    /\ UNCHANGED <<fixed, fs, interrupted, progress_vars, job_pc, content_length,
                   chunks_array, tasks, f_fname, downloaded, f_status, merge_vars,
                   job_result>>

\* Line 152, `dest.write_all(&chunk).await?`: a segment arrives and writing it fails.
WriteError(i) ==
    /\ f_pc[i] = "streaming"
    /\ Len(body[i]) > 0
    /\ Finish(i, "Io")
    /\ UNCHANGED <<fixed, fs, interrupted, progress_vars, job_pc, content_length,
                   chunks_array, tasks, f_fname, downloaded, f_status, merge_vars,
                   job_result>>

\* Lines 156 and 168-170: the stream is exhausted; the range is marked
\* Completed and the part file's path returned.
StreamEnd(i) ==
    /\ f_pc[i] = "streaming"
    /\ Len(body[i]) = 0
    /\ chunks' = set_chunk_state(chunks, i, StateOnExhausted)
    /\ Finish(i, "Ok")
    /\ UNCHANGED <<fixed, fs, interrupted, bytes_per_chunk, job_pc, content_length,
                   chunks_array, tasks, f_fname, downloaded, f_status, merge_vars,
                   job_result>>

\* A poll that reads the flag with swap(false).
FlagAfterPoll_Swap(flag) == FALSE

\* progress.interrupted.load(Ordering::SeqCst), line 160, leaves the flag as it is.
FlagAfterPoll(flag) == flag

\* Lines 159-164: a tick of interrupt_interval; with the flag set the range is
\* marked Failed and the fetcher fails, otherwise the loop goes on.
PollInterrupt(i) ==
    /\ f_pc[i] = "streaming"
    /\ IF interrupted
       THEN /\ chunks' = set_chunk_state(chunks, i, StateOnInterrupt)
            /\ Finish(i, "Interrupted")
       ELSE UNCHANGED <<chunks, f_pc, f_result, finished, body>>
    /\ interrupted' = FlagAfterPoll(interrupted)
    /\ UNCHANGED <<fixed, fs, bytes_per_chunk, job_pc, content_length,
                   chunks_array, tasks, f_fname, downloaded, f_status, merge_vars,
                   job_result>>

\* The task does not run to completion (a panic inside the HTTP client while
\* the request is in flight): join_all yields a JoinError for it, the outer
\* error of `result??` on line 62.
TaskCrash(i) ==
    /\ f_pc[i] = "requesting"
    /\ Finish(i, "JoinError")
    /\ UNCHANGED <<fixed, fs, interrupted, progress_vars, job_pc, content_length,
                   chunks_array, tasks, f_fname, downloaded, f_status, merge_vars,
                   job_result>>

\* cli.rs lines 94-96: the ctrlc handler stores true in the flag.
Interrupt ==
    /\ job_pc # "done"
    /\ ~interrupted
    /\ interrupted' = TRUE
    /\ cancelled_mid' = {i \in ChunkIds : /\ chunks[i] = "Downloading"
                                          /\ f_pc[i] = "streaming"
                                          /\ Len(body[i]) > 0}
    /\ UNCHANGED <<inputs, single_vars, fs, progress_vars, job_pc, content_length,
                   chunks_array, tasks, fetcher_vars, merge_vars, job_result>>

Next ==
    \/ GetContentLength
    \/ Plan
    \/ Spawn
    \/ JoinCollect
    \/ MergeOpen
    \/ MergePart
    \/ MergeRemove
    \/ Interrupt
    \/ \E i \in ChunkIds : OpenPart(i)
    \/ \E i \in ChunkIds : SendRequest(i)
    \/ \E i \in ChunkIds : StreamChunk(i)
    \/ \E i \in ChunkIds : StreamError(i)
    \/ \E i \in ChunkIds : WriteError(i)
    \/ \E i \in ChunkIds : StreamEnd(i)
    \/ \E i \in ChunkIds : PollInterrupt(i)
    \/ \E i \in ChunkIds : TaskCrash(i)

Spec == Init /\ [][Next]_vars

\* The steps of download_with_workers that wait for nothing but the runtime
\* and the file system (lines 28-54, 58-66 and merge_parts).
CoordinatorStep == Plan \/ Spawn \/ JoinCollect \/ MergeOpen \/ MergePart \/ MergeRemove

\* The steps of fetcher i that wait for nothing but the runtime, the file
\* system and the timer: opening the part file (lines 105-121) and the tick
\* of interrupt_interval (lines 159-164). The steps that wait for the server
\* (the response, a segment of the body, its end) are not among them.
FetcherStep(i) == i \in ChunkIds /\ (OpenPart(i) \/ PollInterrupt(i))

\* The job under a runtime that lets every task that can run do so, and with
\* a timer that ticks; the server answers when it wants, possibly never.
FairSpec ==
    /\ Init
    /\ [][Next]_vars
    /\ WF_vars(CoordinatorStep)
    /\ \A i \in 0..(MaxWorkers - 1) : WF_vars(FetcherStep(i))

(***************************************************************************)
(* build_download_path on its own: every URL of up to MaxPathSegments path *)
(* segments and a few target directories, the rest of the state at rest.   *)
(***************************************************************************)
\* The path segments tried: an empty one, a file name, a directory name.
SegmentNames == {"", "file.bin", "dir"}

\* The sequences of 1..n segments.
Paths(n) == UNION {[1..k -> SegmentNames] : k \in 1..n}

Urls ==
    {[cannot_be_a_base |-> TRUE, path |-> <<>>]}
        \cup {[cannot_be_a_base |-> FALSE, path |-> q] : q \in Paths(MaxPathSegments)}

TargetDirs == {<<"downloads">>, <<"home", "downloads">>, <<".">>}

PathInit ==
    /\ SingleAtRest
    /\ url \in Urls
    /\ target_dir \in TargetDirs
    /\ final_path = <<>>
    /\ job_pc = "build_download_path"
    /\ workers = 0
    /\ no_cleanup = FALSE
    /\ resource = <<>>
    /\ length_reported = FALSE
    /\ fs0 = <<>>
    /\ fs = <<>>
    /\ interrupted = FALSE
    /\ chunks = <<>>
    /\ bytes_per_chunk = <<>>
    /\ content_length = -1
    /\ chunks_array = <<>>
    /\ tasks = 0
    /\ f_pc = <<>>
    /\ f_fname = <<>>
    /\ downloaded = <<>>
    /\ body = <<>>
    /\ f_status = <<>>
    /\ f_result = <<>>
    /\ finished = <<>>
    /\ cancelled_mid = {}
    /\ part_paths = <<>>
    /\ part_contents = <<>>
    /\ merged = 0
    /\ final_pos = 0
    /\ job_result = "none"

\* Line 76 (and 105): final_path = build_download_path(url, target_dir).
BuildPath ==
    /\ job_pc = "build_download_path"
    /\ final_path' = build_download_path(url, target_dir)
    /\ job_pc' = "path_built"
    /\ UNCHANGED <<fixed, fs, interrupted, progress_vars, content_length, chunks_array,
                   tasks, fetcher_vars, part_paths, part_contents, merged, final_pos,
                   job_result>>

PathNext == BuildPath

PathSpec == PathInit /\ [][PathNext]_vars

(***************************************************************************)
(* The command line and the single-stream paths: Commands::execute         *)
(* (cli.rs), download_file_async (async_download.rs) and                   *)
(* download_file_blocking (blocking.rs). The destination is                *)
(* build_download_path(url, target_dir); it may exist when the function    *)
(* starts. A job handed to download_with_workers is followed no further    *)
(* here.                                                                   *)
(***************************************************************************)
\* Everything of the parallel job but what the single-stream paths share
\* with it (url, target_dir, workers, resource, fs0, fs, interrupted, job_result).
parallel_vars == <<no_cleanup, length_reported, progress_vars, job_pc, content_length,
                   chunks_array, tasks, fetcher_vars, cancelled_mid, merge_vars>>

single_inputs == <<url, target_dir, workers, resource, fs0, command, resume, overwrite>>

\* The destination of the single-stream functions, lines 26 and 24.
Dest == build_download_path(url, target_dir)

\* The files a single-stream download may find at its destination: none, the
\* first bytes of the resource (an earlier download, possibly complete or
\* empty), or other content.
ExistingFiles(res) ==
    {<<>>} \cup {[p \in {FinalPath} |-> c] :
                    c \in {Slice(res, 0, n) : n \in 0..Len(res)} \cup {Stale}}

SingleInit ==
    /\ command \in {"DownloadBlocking", "DownloadAsync"}
    /\ resume \in BOOLEAN
    /\ overwrite \in BOOLEAN
    /\ workers \in 0..MaxWorkers
    /\ resource \in {Resource(n) : n \in 0..MaxSize}
    /\ fs0 \in ExistingFiles(resource)
    /\ fs = fs0
    /\ url = JobUrl
    /\ target_dir = JobDir
    /\ s_fn = "none"
    /\ s_pc = "cli"
    /\ resume_from = 0
    /\ s_downloaded = 0
    /\ s_range = -2
    /\ s_status = 0
    /\ s_body = <<>>
    /\ interrupted = FALSE
    /\ job_result = "none"
    /\ final_path = <<>>
    /\ no_cleanup = FALSE
    /\ length_reported = TRUE
    /\ chunks = NewChunks(workers)
    /\ bytes_per_chunk = NewBytesPerChunk(workers)
    /\ job_pc = "not_called"
    /\ content_length = -1
    /\ chunks_array = <<>>
    /\ tasks = 0
    /\ f_pc = [i \in ChunkIds |-> "unspawned"]
    /\ f_fname = [i \in ChunkIds |-> FinalPath]
    /\ downloaded = [i \in ChunkIds |-> 0]
    /\ body = [i \in ChunkIds |-> <<>>]
    /\ f_status = [i \in ChunkIds |-> 0]
    /\ f_result = [i \in ChunkIds |-> "none"]
    /\ finished = <<>>
    /\ cancelled_mid = {}
    /\ part_paths = <<>>
    /\ part_contents = <<>>
    /\ merged = 0
    /\ final_pos = 0

\* A dispatch that sends only a worker count of 0 to the single-stream path.
UsesSingleStream_OnlyZero(w) == w < 1

\* cli.rs line 159, `if *workers <= 1`.
UsesSingleStream(w) == w <= 1

\* cli.rs lines 139-194: the function Commands::execute calls.
Callee(cmd, w) ==
    IF cmd = "DownloadBlocking" THEN "download_file_blocking"
    ELSE IF UsesSingleStream(w) THEN "download_file_async"
    ELSE "download_with_workers"

Dispatch ==
    /\ s_pc = "cli"
    /\ s_fn' = Callee(command, workers)
    /\ s_pc' = IF Callee(command, workers) = "download_with_workers"
               THEN "handed_over" ELSE "open"
    /\ UNCHANGED <<single_inputs, parallel_vars, fs, interrupted, job_result,
                   resume_from, s_downloaded, s_range, s_status, s_body>>

\* The single-stream function returns `result`.
SReturn(result) ==
    /\ job_result' = result
    /\ s_pc' = "done"

\* An open for overwriting without truncate(true).
OpenTruncate_Kept(files, path) == files

\* OpenOptions::new().write(true).truncate(true).open(path) of an existing file.
OpenTruncate(files, path) == [files EXCEPT ![path] = <<>>]

\* The handle was opened with append(true): resume without overwrite of an
\* existing file.
AppendMode == Dest \in DOMAIN fs0 /\ ~overwrite /\ resume

\* A write of `data` through dest: at the end of the file in append mode,
\* otherwise at the cursor.
WriteDest(content, cursor, data) ==
    IF AppendMode THEN content \o data ELSE WriteAt(content, cursor, data)

\* async_download.rs lines 26-49, blocking.rs lines 24-55: how the destination
\* is opened. An existing file is truncated with overwrite, kept with resume
\* (resume_from is its length), and refused otherwise; a missing one is created.
SOpen ==
    /\ s_pc = "open"
    /\ \/ IF Dest \in DOMAIN fs
          THEN IF overwrite
               THEN /\ fs' = OpenTruncate(fs, Dest)
                    /\ resume_from' = 0
                    /\ s_downloaded' = 0
                    /\ s_pc' = "request"
                    /\ UNCHANGED job_result
               ELSE IF resume
                    THEN /\ resume_from' = Len(fs[Dest])
                         /\ s_downloaded' = Len(fs[Dest])
                         /\ s_pc' = "request"
                         /\ UNCHANGED <<fs, job_result>>
                    ELSE /\ SReturn("FileExists")
                         /\ UNCHANGED <<fs, resume_from, s_downloaded>>
          ELSE /\ fs' = OpenCreateWrite(fs, Dest)
               /\ resume_from' = 0
               /\ s_downloaded' = 0
               /\ s_pc' = "request"
               /\ UNCHANGED job_result
       \/ /\ Dest \notin DOMAIN fs \/ overwrite \/ resume
          /\ SReturn("Io")
          /\ UNCHANGED <<fs, resume_from, s_downloaded>>
    /\ UNCHANGED <<single_inputs, parallel_vars, interrupted, s_fn, s_range, s_status,
                   s_body>>

\* A resume request whose range starts one byte late.
RequestRangeStart_Next(from) == from + 1

\* async_download.rs line 54, blocking.rs line 61: the header
\* `Range: bytes={resume_from}-`, by the first byte it asks for.
RequestRangeStart(from) == from

\* async_download.rs lines 57-65, blocking.rs lines 66-83: the error of a
\* resume request answered with something else than 206.
ResumeError(status) ==
    CASE status = 416 -> "AlreadyComplete"
      [] status = 200 -> "CannotResume"
      [] OTHER -> UnexpectedStatus(status)

\* What a server sends with a status other than 200 or 206.
ErrorPage == <<500>>

\* async_download.rs lines 51-68, blocking.rs lines 57-86: the request. With
\* resume_from > 0 it carries a Range header and only 206 goes on; without it
\* the async path refuses an error status (error_for_status) and the blocking
\* path reads whatever body comes. s_range is the first byte the request asks
\* for, -1 without a Range header; sending may fail (`?`).
SRequest ==
    /\ s_pc = "request"
    /\ \/ /\ SReturn("Io")
          /\ s_range' = IF resume_from > 0 THEN RequestRangeStart(resume_from) ELSE -1
          /\ UNCHANGED <<s_status, s_body>>
       \/ /\ resume_from > 0
          /\ s_range' = RequestRangeStart(resume_from)
          /\ \E status \in Statuses :
                /\ status = 206 => RequestRangeStart(resume_from) < Len(resource)
                /\ s_status' = status
                /\ IF status = 206
                   THEN /\ s_body' = Slice(resource, RequestRangeStart(resume_from),
                                           Len(resource) - RequestRangeStart(resume_from))
                        /\ s_pc' = "streaming"
                        /\ UNCHANGED job_result
                   ELSE /\ SReturn(ResumeError(status))
                        /\ UNCHANGED s_body
       \/ /\ resume_from = 0
          /\ s_range' = -1
          /\ \E status \in {200, 500} :
                /\ s_status' = status
                /\ IF status = 200
                   THEN /\ s_body' = resource
                        /\ s_pc' = "streaming"
                        /\ UNCHANGED job_result
                   ELSE IF s_fn = "download_file_async"
                        THEN /\ SReturn("HttpError")
                             /\ UNCHANGED s_body
                        ELSE /\ s_body' = ErrorPage
                             /\ s_pc' = "streaming"
                             /\ UNCHANGED job_result
    /\ UNCHANGED <<single_inputs, parallel_vars, fs, interrupted, s_fn, resume_from,
                   s_downloaded>>

\* async_download.rs lines 76-81: a chunk of the stream is written, then counted.
AsyncChunk ==
    /\ s_fn = "download_file_async"
    /\ s_pc = "streaming"
    /\ \E n \in 1..Min(MaxSeg, Len(s_body)) :
          /\ fs' = [fs EXCEPT ![Dest] =
                        WriteDest(@, s_downloaded - resume_from, SubSeq(s_body, 1, n))]
          /\ s_downloaded' = s_downloaded + n
          /\ s_body' = SubSeq(s_body, n + 1, Len(s_body))
    /\ UNCHANGED <<single_inputs, parallel_vars, interrupted, job_result, s_fn, s_pc,
                   resume_from, s_range, s_status>>

\* async_download.rs lines 78-79: `chunk_result?` or `write_all(..).await?` fails.
AsyncError ==
    /\ s_fn = "download_file_async"
    /\ s_pc = "streaming"
    /\ SReturn("Io")
    /\ UNCHANGED <<single_inputs, parallel_vars, fs, interrupted, s_fn, resume_from,
                   s_downloaded, s_range, s_status, s_body>>

\* async_download.rs lines 82, 102-108: the stream ended.
AsyncEnd ==
    /\ s_fn = "download_file_async"
    /\ s_pc = "streaming"
    /\ Len(s_body) = 0
    /\ SReturn("Ok")
    /\ UNCHANGED <<single_inputs, parallel_vars, fs, interrupted, s_fn, resume_from,
                   s_downloaded, s_range, s_status, s_body>>

\* async_download.rs lines 84-89: the interrupt tick sees the flag set.
AsyncPoll ==
    /\ s_fn = "download_file_async"
    /\ s_pc = "streaming"
    /\ interrupted
    /\ SReturn("Interrupted")
    /\ UNCHANGED <<single_inputs, parallel_vars, fs, interrupted, s_fn, resume_from,
                   s_downloaded, s_range, s_status, s_body>>

\* blocking.rs lines 92-120: one turn of the loop that read n > 0 bytes. They
\* are counted (line 97), then the flag is read (line 98) and the loop left
\* without writing them, or they are written (line 120).
BlockingRead ==
    /\ s_fn = "download_file_blocking"
    /\ s_pc = "streaming"
    /\ \E n \in 1..Min(MaxSeg, Len(s_body)) :
          /\ s_downloaded' = s_downloaded + n
          /\ s_body' = SubSeq(s_body, n + 1, Len(s_body))
          /\ IF interrupted
             THEN /\ s_pc' = "after_loop"
                  /\ UNCHANGED fs
             ELSE /\ fs' = [fs EXCEPT ![Dest] =
                              WriteDest(@, s_downloaded - resume_from, SubSeq(s_body, 1, n))]
                  /\ UNCHANGED s_pc
    /\ UNCHANGED <<single_inputs, parallel_vars, interrupted, job_result, s_fn,
                   resume_from, s_range, s_status>>

\* blocking.rs lines 92, 120, 122: `response.read(..)?`, `write_all(..)?` or
\* `sync_all()?` fails.
BlockingError ==
    /\ s_fn = "download_file_blocking"
    /\ s_pc \in {"streaming", "after_loop"}
    /\ SReturn("Io")
    /\ UNCHANGED <<single_inputs, parallel_vars, fs, interrupted, s_fn, resume_from,
                   s_downloaded, s_range, s_status, s_body>>

\* blocking.rs lines 93-95: read returned 0.
BlockingEof ==
    /\ s_fn = "download_file_blocking"
    /\ s_pc = "streaming"
    /\ Len(s_body) = 0
    /\ s_pc' = "after_loop"
    /\ UNCHANGED <<single_inputs, parallel_vars, fs, interrupted, job_result, s_fn,
                   resume_from, s_downloaded, s_range, s_status, s_body>>

\* A function that looks at the flag inside the loop only.
InterruptedAfterLoop_Unchecked(flag) == FALSE

\* blocking.rs line 123, `if interrupted.load(Ordering::SeqCst)` after the loop.
InterruptedAfterLoop(flag) == flag

\* blocking.rs lines 122-148: after the loop the flag is read again, then the
\* file's length is asserted to equal `downloaded`.
BlockingFinish ==
    /\ s_fn = "download_file_blocking"
    /\ s_pc = "after_loop"
    /\ SReturn(IF InterruptedAfterLoop(interrupted) THEN "Cancelled"
               ELSE IF Len(fs[Dest]) # s_downloaded THEN "Panic"
               ELSE "Ok")
    /\ UNCHANGED <<single_inputs, parallel_vars, fs, interrupted, s_fn, resume_from,
                   s_downloaded, s_range, s_status, s_body>>

SingleNext ==
    \/ Dispatch
    \/ SOpen
    \/ SRequest
    \/ AsyncChunk
    \/ AsyncError
    \/ AsyncEnd
    \/ AsyncPoll
    \/ BlockingRead
    \/ BlockingError
    \/ BlockingEof
    \/ BlockingFinish
    \/ Interrupt

SingleSpec == SingleInit /\ [][SingleNext]_vars

(***************************************************************************)
(* Properties.                                                             *)
(***************************************************************************)
\* The errors "Unexpected status: <code>" of the statuses the server answers with.
UnexpectedKinds == {UnexpectedStatus(code) : code \in Statuses \ {206, 200}}

ErrorKinds == {"Io", "LengthUnknown", "RangeUnsupported", "Interrupted", "JoinError",
               "Panic", "InvalidInput"} \cup UnexpectedKinds

\* The coordinator is inside merge_parts.
InMerge == job_pc \in {"merge_open", "merge", "merge_remove"}

\* Planning is over: the coordinator has left lines 28-42.
Planned == job_pc \notin {"get_content_length", "plan"} /\ content_length # -1

\* `ranges` are w ranges that cover [0, n-1] exactly once, in ascending order.
IsPartition(ranges, n, w) ==
    /\ Len(ranges) = w
    /\ w >= 1
    /\ ranges[1][1] = 0
    /\ ranges[w][2] = n - 1
    /\ \A k \in 1..w : ranges[k][1] <= ranges[k][2]
    /\ \A k \in 1..(w - 1) : ranges[k + 1][1] = ranges[k][2] + 1

\* The final file is as it was when the job started.
FinalUntouched ==
    /\ FinalPath \in DOMAIN fs <=> FinalPath \in DOMAIN fs0
    /\ FinalPath \in DOMAIN fs => fs[FinalPath] = fs0[FinalPath]

\* C1: for every total_size >= 1 and every workers >= 1 (also workers >
\* total_size) the planned ranges are exactly `workers` many, do not overlap,
\* leave no gap and cover [0, total_size-1].
C1_RangesPartition ==
    (Planned /\ content_length >= 1 /\ workers >= 1)
        => IsPartition(chunks_array, content_length, workers)

\* C2: when every range fetch has completed and the parts are merged, the
\* final file's content is the resource, byte for byte, for any worker count
\* (stated for a job that starts with no file of its own on disk).
C2_MergedFileIsResource ==
    (job_pc = "done" /\ job_result = "Ok" /\ DOMAIN fs0 = {})
        => fs[FinalPath] = resource

\* C3: the list of part-file paths handed to the merger holds, at position i,
\* the part file of range i, in whatever order the tasks finished.
C3_PartPathsInSpawnOrder ==
    InMerge
        => /\ Len(part_paths) = workers
           /\ \A i \in ChunkIds : part_paths[i + 1] = PartPath(Start(i), End(i))

\* C3's case: the merger has been handed the paths of at least two ranges
\* although the task of the last range finished first.
C3_Witness ==
    /\ job_pc = "merge"
    /\ Len(part_paths) >= 2
    /\ finished[1] = workers - 1
    /\ part_paths[1] # part_paths[2]

\* C4: when at least one task has failed (an error result or a crash), the
\* job never enters merge_parts, it returns an error, and the final file is
\* neither created nor written, whatever the other ranges did.
C4_NoMergeAfterFailure ==
    (\E i \in ChunkIds : f_result[i] \notin {"none", "Ok"})
        => /\ ~InMerge
           /\ part_paths = <<>>
           /\ FinalUntouched
           /\ job_pc = "done" => job_result \in ErrorKinds

\* C4's case: the job has returned an error after one range failed and
\* another one completed.
C4_Witness ==
    /\ job_pc = "done"
    /\ job_result \in ErrorKinds
    /\ \E i, j \in ChunkIds : /\ f_result[i] \notin {"none", "Ok"}
                              /\ f_result[j] = "Ok"
                              /\ chunks[j] = "Completed"

\* The job's input is one the planner handles: no range is empty.
SaneInput == workers >= 1 /\ Len(resource) >= workers

\* C5: whenever a fetcher has returned an error of any kind, its range is
\* Failed in the aggregator (stated for the inputs the planner handles).
C5_ErrorMeansFailed ==
    SaneInput =>
        \A i \in ChunkIds :
            f_result[i] \in {"Io", "RangeUnsupported", "Interrupted"} \cup UnexpectedKinds
                => chunks[i] = "Failed"

\* The failed task of lowest index; -1 if no task has failed.
LowestFailed ==
    IF \E i \in ChunkIds : f_result[i] \notin {"none", "Ok"}
    THEN CHOOSE i \in ChunkIds : /\ f_result[i] \notin {"none", "Ok"}
                                 /\ \A j \in 0..(i - 1) : f_result[j] \in {"none", "Ok"}
    ELSE -1

\* C6 as claimed: a range that was Downloading with its body not yet
\* exhausted when the flag was set ends Failed, its fetcher fails with
\* Interrupted and the job fails with Interrupted. Ranges that meanwhile
\* failed for a reason of their own (an I/O error) are left out, in the
\* claim's favour.
C6_CancelledMidStreamFails ==
    \A i \in cancelled_mid :
        (f_pc[i] = "done" /\ f_result[i] # "Io")
            => /\ chunks[i] = "Failed"
               /\ f_result[i] = "Interrupted"
               /\ job_pc = "done" => job_result = "Interrupted"

\* C6 as amended: a fetcher whose poll found the flag set has marked its
\* range Failed (never Completed) and failed with Interrupted, nothing is
\* merged, and the job fails with the error of the failed range of lowest
\* index.
C6_ObservedCancelFails ==
    \A i \in ChunkIds :
        f_result[i] = "Interrupted"
            => /\ interrupted
               /\ chunks[i] = "Failed"
               /\ ~InMerge
               /\ job_pc = "done" => /\ job_result \in ErrorKinds
                                     /\ job_result = f_result[LowestFailed]

\* C6's case: the flag was set while a range was mid-stream, the range's
\* poll saw it, and the job has failed with Interrupted.
C6_Witness ==
    \E i \in cancelled_mid :
        /\ f_result[i] = "Interrupted"
        /\ chunks[i] = "Failed"
        /\ job_pc = "done"
        /\ job_result = "Interrupted"

\* C7: with workers = 0 or a resource of size 0 planning fails with the
\* error value InvalidInput: no crash, no range, no task, no file.
C7_InvalidInputRejected ==
    (Planned /\ (workers = 0 \/ content_length = 0))
        => /\ job_pc = "done"
           /\ job_result = "InvalidInput"
           /\ chunks_array = <<>>
           /\ tasks = 0
           /\ fs = fs0

\* C8 as claimed: a fetcher answered with status 200 has marked its range
\* Failed and written nothing, and the job fails with RangeUnsupported
\* without merging.
C8_Status200FailsJobWithRangeUnsupported ==
    SaneInput =>
        \A i \in ChunkIds :
            f_result[i] = "RangeUnsupported"
                => /\ chunks[i] = "Failed"
                   /\ bytes_per_chunk[i] = 0
                   /\ ~InMerge
                   /\ job_pc = "done" => job_result = "RangeUnsupported"

\* C8 as amended: a fetcher answered with status 200 has marked its range
\* Failed and written nothing; the job fails without merging, with the error
\* of the failed range of lowest index, which is RangeUnsupported when no
\* range of lower index failed.
C8_Status200FailsJob ==
    \A i \in ChunkIds :
        f_result[i] = "RangeUnsupported"
            => /\ chunks[i] = "Failed"
               /\ bytes_per_chunk[i] = 0
               /\ downloaded[i] = 0
               /\ ~InMerge
               /\ part_paths = <<>>
               /\ job_pc = "done" =>
                     /\ job_result \in ErrorKinds
                     /\ job_result = f_result[LowestFailed]
                     /\ (\A j \in 0..(i - 1) : f_result[j] = "Ok")
                            => job_result = "RangeUnsupported"

\* C8's case: a range was answered 200 while a range of lower index
\* completed, and the job has failed with RangeUnsupported.
C8_Witness ==
    \E i, j \in ChunkIds :
        /\ j < i
        /\ f_result[j] = "Ok"
        /\ f_result[i] = "RangeUnsupported"
        /\ job_pc = "done"
        /\ job_result = "RangeUnsupported"

\* C9: when the preliminary response carries no content length the job fails
\* with LengthUnknown before planning: the aggregator is as constructed, no
\* range is planned, no task is spawned and no file is created or changed.
C9_LengthUnknownBeforePlanning ==
    (~length_reported /\ job_pc # "get_content_length" /\ job_result # "Io")
        => /\ job_pc = "done"
           /\ job_result = "LengthUnknown"
           /\ chunks = NewChunks(workers)
           /\ bytes_per_chunk = NewBytesPerChunk(workers)
           /\ chunks_array = <<>>
           /\ tasks = 0
           /\ \A i \in ChunkIds : f_pc[i] = "unspawned"
           /\ fs = fs0

\* C9's case: the job has failed with LengthUnknown for a request of
\* several workers, with files already on disk.
C9_Witness ==
    /\ ~length_reported
    /\ job_pc = "done"
    /\ job_result = "LengthUnknown"
    /\ workers >= 2
    /\ DOMAIN fs0 # {}

\* C10: no step of any fetcher, in any interleaving, lowers the byte counter
\* of any range.
C10_CountersNeverDecrease ==
    [][\A i \in ChunkIds : bytes_per_chunk'[i] >= bytes_per_chunk[i]]_vars

\* C10's case: a range's counter has been raised more than once and its
\* fetcher is still streaming.
C10_Witness ==
    \E i \in ChunkIds :
        /\ bytes_per_chunk[i] > MaxSeg
        /\ f_pc[i] = "streaming"

\* The changes of a range's state the specification allows.
AllowedTransitions ==
    {<<"Pending", "Downloading">>, <<"Downloading", "Completed">>,
     <<"Downloading", "Failed">>}

\* C11: a range's state only ever changes from Pending to Downloading and
\* from Downloading to Completed or Failed: Completed and Failed are never
\* reached from Pending, and a Completed or Failed range never changes again.
C11_StateTransitions ==
    [][\A i \in ChunkIds :
          chunks'[i] # chunks[i] => <<chunks[i], chunks'[i]>> \in AllowedTransitions]_vars

\* C11's case: the job is over with one range Completed and another Failed.
C11_Witness ==
    /\ job_pc = "done"
    /\ \E i, j \in ChunkIds : chunks[i] = "Completed" /\ chunks[j] = "Failed"

\* The first k of the sequences `seqs`, one after the other.
RECURSIVE ConcatFirst(_, _)
ConcatFirst(seqs, k) ==
    IF k = 0 THEN <<>> ELSE ConcatFirst(seqs, k - 1) \o seqs[k]

\* C12: after a successful merge the final file's content is exactly the
\* concatenation of the part files in the given order, also when a file with
\* other, longer content was at the final path before.
C12_MergeTruncatesFinal ==
    (job_pc = "done" /\ job_result = "Ok" /\ SaneInput)
        => fs[FinalPath] = ConcatFirst(part_contents, Len(part_contents))

\* C13: when a fetcher has completed, its part file holds exactly the bytes
\* received for its range in this run, also when a longer part file of the
\* same name was on disk before (looked at before the merger removes it).
C13_PartFileIsRangeBody ==
    (SaneInput /\ job_pc \in {"spawn", "join"})
        => \A i \in ChunkIds :
              f_result[i] = "Ok" => fs[f_fname[i]] = ServerBody(resource, Start(i), End(i))

\* The part-file paths handed to merge_parts.
PartFiles == {part_paths[k] : k \in 1..Len(part_paths)}

\* C14: in merge_parts without no_cleanup a part file is removed only once
\* its full content stands in the final file, right before the cursor, and
\* after a successful merge no part file exists; with no_cleanup no step of
\* the merge removes or changes a part file, and all of them exist after it.
C14_CleanupAfterCopy ==
    [][/\ \A p \in (DOMAIN fs \ DOMAIN fs') :
             /\ ~no_cleanup
             /\ p \in PartFiles
             /\ FinalPath \in DOMAIN fs'
             /\ final_pos' >= Len(fs[p])
             /\ Len(fs'[FinalPath]) >= final_pos'
             /\ Slice(fs'[FinalPath], final_pos' - Len(fs[p]), Len(fs[p])) = fs[p]
       /\ (job_pc' = "done" /\ job_result' = "Ok" /\ ~no_cleanup)
             => \A p \in PartFiles' : p \notin DOMAIN fs'
       /\ (InMerge /\ no_cleanup)
             => \A p \in PartFiles : /\ p \in DOMAIN fs /\ p \in DOMAIN fs'
                                     /\ fs'[p] = fs[p]]_vars

\* C14's case: a merge of two parts with cleanup has returned Ok.
C14_Witness ==
    /\ job_pc = "done"
    /\ job_result = "Ok"
    /\ ~no_cleanup
    /\ merged = 2
    /\ part_paths[1] # part_paths[2]

\* C15: once a range fetch has failed no file is deleted, whatever
\* no_cleanup is: every file that was on disk stays, and when the job has
\* returned the error the part file of every Completed range is on disk.
C15_NoCleanupOnFailure ==
    (\E i \in ChunkIds : f_result[i] \notin {"none", "Ok"})
        => /\ DOMAIN fs0 \subseteq DOMAIN fs
           /\ \A i \in ChunkIds :
                 (chunks[i] = "Completed" \/ f_result[i] = "Ok")
                     => /\ f_fname[i] = PartPath(Start(i), End(i))
                        /\ f_fname[i] \in DOMAIN fs
           /\ job_pc = "done" => job_result \in ErrorKinds

\* C15's case: with cleanup enabled the job has returned a range's error
\* and the part file of a Completed range, not there before the job, is on disk.
C15_Witness ==
    /\ ~no_cleanup
    /\ job_pc = "done"
    /\ job_result \in ErrorKinds
    /\ \E i, j \in ChunkIds : /\ f_result[i] \in {"Io", "Interrupted"} \cup UnexpectedKinds
                              /\ chunks[j] = "Completed"
                              /\ f_fname[j] \in DOMAIN fs
                              /\ f_fname[j] \notin DOMAIN fs0

\* A step in which merge_parts, with cleanup, fails at part `merged`
\* (counted from 0): opening or copying it failed.
CopyFails == job_pc = "merge" /\ job_pc' = "done" /\ ~no_cleanup

\* C16 as claimed: when copying part k fails, the merge returns an error,
\* parts 0..k-1 stay deleted, parts k..N-1 remain on disk, and the final file
\* is in place, holds only the content of parts 0..k-1 and is shorter than
\* the resource (stated for a job that finds no file of its own on disk and
\* an input the planner handles, in the claim's favour).
C16_FailedCopyLeavesCopiedParts ==
    [][(CopyFails /\ SaneInput /\ DOMAIN fs0 = {})
          => /\ job_result' \in ErrorKinds
             /\ \A j \in 1..merged : part_paths[j] \notin DOMAIN fs'
             /\ \A j \in (merged + 1)..Len(part_paths) : part_paths[j] \in DOMAIN fs'
             /\ FinalPath \in DOMAIN fs'
             /\ fs'[FinalPath] = ConcatFirst(part_contents, merged)
             /\ Len(fs'[FinalPath]) < Len(resource)]_vars

\* C16 as amended: when opening or copying part k fails, the merge returns
\* an error, parts 0..k-1 stay deleted, every later part that is not the same
\* file as one of them remains on disk unchanged, and the final file is in
\* place: it starts with the content of parts 0..k-1 followed by the n bytes
\* of part k written before the failure; it ends there when no file was at
\* the final path before the job, and otherwise keeps the earlier file's
\* bytes beyond them.
C16_FailedCopyKeepsPrefix ==
    [][CopyFails
          => /\ job_result' \in ErrorKinds
             /\ \A j \in 1..merged : part_paths[j] \notin DOMAIN fs'
             /\ \A j \in (merged + 1)..Len(part_paths) :
                   \/ \E h \in 1..merged : part_paths[h] = part_paths[j]
                   \/ /\ part_paths[j] \in DOMAIN fs'
                      /\ fs'[part_paths[j]] = part_contents[j]
             /\ FinalPath \in DOMAIN fs'
             /\ \E n \in 0..Len(part_contents[merged + 1]) :
                   /\ final_pos' = Len(ConcatFirst(part_contents, merged)) + n
                   /\ Len(fs'[FinalPath]) >= final_pos'
                   /\ Slice(fs'[FinalPath], 0, final_pos') =
                          ConcatFirst(part_contents, merged)
                              \o Slice(part_contents[merged + 1], 0, n)
             /\ IF FinalPath \in DOMAIN fs0
                THEN /\ Len(fs'[FinalPath]) = Max(final_pos', Len(fs0[FinalPath]))
                     /\ \A k \in (final_pos' + 1)..Len(fs'[FinalPath]) :
                           fs'[FinalPath][k] = fs0[FinalPath][k]
                ELSE Len(fs'[FinalPath]) = final_pos']_vars

\* C16's case: with cleanup, the copy of the second part has failed after
\* some of its bytes were written; the first part is gone, the second is on disk.
C16_Witness ==
    /\ ~no_cleanup
    /\ job_pc = "done"
    /\ job_result = "Io"
    /\ merged = 1
    /\ Len(part_paths) = 2
    /\ part_paths[1] \notin DOMAIN fs
    /\ part_paths[2] \in DOMAIN fs
    /\ final_pos > Len(part_contents[1])
    /\ final_pos < Len(part_contents[1]) + Len(part_contents[2])

\* Range i of w over n bytes as the specification computes it, in unbounded
\* integer arithmetic.
FormulaRange(i, n, w) ==
    <<i * (n \div w), IF i = w - 1 THEN n - 1 ELSE (i + 1) * (n \div w) - 1>>

\* C17: the ranges handed to the fetchers are start = i*chunk_size and
\* end = (i+1)*chunk_size - 1, total_size - 1 for the last one, computed
\* without underflow or overflow, for every total_size >= 1 and workers >= 1;
\* (1000, 4) and (1001, 4) give the ranges of the specification's examples.
C17_RangeFormula ==
    /\ ChunksArray(1000, 4) = <<(<<0, 249>>), (<<250, 499>>), (<<500, 749>>), (<<750, 999>>)>>
    /\ ChunksArray(1001, 4) = <<(<<0, 249>>), (<<250, 499>>), (<<500, 749>>), (<<750, 1000>>)>>
    /\ (Planned /\ content_length >= 1 /\ workers >= 1)
          => /\ job_result # "Panic"
             /\ Len(chunks_array) = workers
             /\ \A i \in ChunkIds :
                   chunks_array[i + 1] = FormulaRange(i, content_length, workers)

\* Fetcher i holds its part file open for writing (its local `dest`).
HoldsPartFile(i) == f_pc[i] \in {"requesting", "streaming"}

\* C18: no two fetchers of a job have the same part file open for writing
\* (distinct ranges have distinct part-file names), and merge_parts runs only
\* when every fetcher has terminated.
C18_PartFilesNotShared ==
    /\ \A i, j \in ChunkIds :
          (i # j /\ HoldsPartFile(i) /\ HoldsPartFile(j)) => f_fname[i] # f_fname[j]
    /\ InMerge => \A i \in ChunkIds : f_pc[i] = "done"

\* C19: the cancellation flag starts false, only the interrupt handler
\* changes it, and once true it stays true: no step of the coordinator, a
\* fetcher, the merger or the aggregator writes it.
C19_FlagMonotone ==
    /\ ~interrupted
    /\ [][/\ interrupted => interrupted'
          /\ interrupted' # interrupted => Interrupt]_vars

\* C19's case: the flag is set, a fetcher has seen it and failed, and the
\* job has returned with the flag still set.
C19_Witness ==
    /\ interrupted
    /\ job_pc = "done"
    /\ \E i \in ChunkIds : f_result[i] = "Interrupted"

\* The file name the specification derives from a URL: the last path
\* segment, the placeholder when there is none or it is empty.
SpecFileName(u) ==
    IF u.cannot_be_a_base \/ u.path[Len(u.path)] = ""
    THEN "tmp.bin"
    ELSE u.path[Len(u.path)]

\* C20: the final path is target_dir followed by the URL's last path
\* segment, or by tmp.bin when the URL has no path segments or its last
\* segment is empty; it names a file inside target_dir, never target_dir.
C20_FinalPathInsideTargetDir ==
    job_pc = "path_built"
        => /\ final_path = Append(target_dir, SpecFileName(url))
           /\ final_path # target_dir

\* The part file of range i as it was when the fetcher had opened it.
PartAsOpened(i) == IF f_fname[i] \in DOMAIN fs0 THEN fs0[f_fname[i]] ELSE <<>>

\* C21: a fetcher whose ranged GET is answered with a status other than 206
\* and 200 marks its range Failed, writes no byte of a body (its part file,
\* unless another fetcher has the same one, stays as it was opened) and fails
\* with UnexpectedStatus carrying that status.
C21_OtherStatusFails ==
    \A i \in ChunkIds :
        f_status[i] \notin {0, 206, 200}
            => /\ f_pc[i] = "done"
               /\ chunks[i] = "Failed"
               /\ f_result[i] = UnexpectedStatus(f_status[i])
               /\ f_result[i] \notin {"UnexpectedStatus", "RangeUnsupported"}
               /\ downloaded[i] = 0
               /\ bytes_per_chunk[i] = 0
               /\ (\A j \in ChunkIds \ {i} : f_fname[j] # f_fname[i])
                     => fs[f_fname[i]] = PartAsOpened(i)

\* C21's case: one range was answered 500, another one 416.
C21_Witness ==
    \E i, j \in ChunkIds :
        /\ f_status[i] = 500 /\ f_result[i] = UnexpectedStatus(500)
        /\ f_status[j] = 416 /\ f_result[j] = UnexpectedStatus(416)


\* C22: a worker count of 1 never reaches download_with_workers: the command
\* line sends DownloadAsync with workers <= 1 to download_file_async, and
\* download_with_workers is called only with workers >= 2.
C22_OneWorkerIsSingleStream ==
    /\ s_fn = "download_with_workers" => command = "DownloadAsync" /\ workers >= 2
    /\ (command = "DownloadAsync" /\ workers = 1 /\ s_pc # "cli")
          => s_fn = "download_file_async"

C22_Witness ==
    /\ command = "DownloadAsync"
    /\ workers = 1
    /\ s_fn = "download_file_async"
    /\ job_result = "Ok"
    /\ Len(resource) > 0


\* C23: a fetcher returns its part file's path exactly when its range is
\* Completed; a range is Completed only once its fetcher has consumed the whole
\* body without an error and without having seen the flag set, and then the
\* range's byte counter is the number of bytes the fetcher wrote.
C23_PathIffCompleted ==
    \A i \in ChunkIds :
        /\ f_pc[i] = "done" => (f_result[i] = "Ok" <=> chunks[i] = "Completed")
        /\ chunks[i] = "Completed"
              => /\ f_pc[i] = "done"
                 /\ f_result[i] = "Ok"
                 /\ f_status[i] = 206
                 /\ downloaded[i] = Len(ServerBody(resource, Start(i), End(i)))
                 /\ bytes_per_chunk[i] = downloaded[i]

C23_Witness ==
    \E i, j \in ChunkIds :
        /\ f_result[i] = "Ok"
        /\ chunks[i] = "Completed"
        /\ bytes_per_chunk[i] > 0
        /\ f_result[j] = "Interrupted"
        /\ chunks[j] = "Failed"


\* C24: a fetcher sends its ranged GET only once its range is Downloading: a
\* fetcher about to send has a Downloading range, and a Pending range has had
\* no request sent and no response received.
C24_RequestAfterDownloading ==
    \A i \in ChunkIds :
        /\ f_pc[i] = "requesting" => chunks[i] = "Downloading"
        /\ chunks[i] = "Pending"
              => /\ f_status[i] = 0
                 /\ f_pc[i] \in {"unspawned", "start", "done"}
                 /\ f_pc[i] = "done" => f_result[i] = "Io" /\ downloaded[i] = 0

C24_Witness ==
    \E i, j \in ChunkIds :
        /\ f_pc[i] = "requesting"
        /\ chunks[i] = "Downloading"
        /\ f_pc[j] = "start"
        /\ chunks[j] = "Pending"


\* C25: once the flag is set, every fetcher that has started and not finished
\* eventually terminates, whether it is opening its part file, waiting for the
\* response or reading the body.
C25_CancelledFetchersTerminate ==
    \A i \in 0..(MaxWorkers - 1) :
        (i \in ChunkIds /\ interrupted /\ f_pc[i] \in {"start", "requesting", "streaming"})
            ~> (i \in ChunkIds /\ f_pc[i] = "done")


\* C26: once download_with_workers is past join_all (merging, or returned
\* after having spawned tasks), every spawned fetcher has terminated; in
\* particular a failure is reported only when all the siblings of the failed
\* fetcher have finished.
C26_ReturnsAfterAllTasks ==
    (job_pc \in {"merge_open", "merge", "merge_remove", "done"} /\ tasks > 0)
        => /\ tasks = workers
           /\ \A i \in ChunkIds : f_pc[i] = "done" /\ f_result[i] # "none"
           /\ Len(finished) = tasks

C26_Witness ==
    /\ job_pc = "done"
    /\ Len(finished) = 2
    /\ f_result[finished[1]] \notin {"none", "Ok"}
    /\ f_result[finished[2]] = "Ok"
    /\ job_result = f_result[finished[1]]


\* C27: the step in which a fetcher fails leaves every other range as it was:
\* its state, its byte counter, its fetcher's position, counter, pending body
\* and result, and every file.
C27_FailureLeavesSiblings ==
    [][\A i \in ChunkIds :
          (f_result[i] = "none" /\ f_result'[i] \notin {"none", "Ok"})
              => /\ fs' = fs
                 /\ \A j \in ChunkIds \ {i} :
                       /\ chunks'[j] = chunks[j]
                       /\ bytes_per_chunk'[j] = bytes_per_chunk[j]
                       /\ f_pc'[j] = f_pc[j]
                       /\ downloaded'[j] = downloaded[j]
                       /\ body'[j] = body[j]
                       /\ f_result'[j] = f_result[j]]_vars

\* A fetcher failed while a sibling was reading its body, and the sibling went
\* on to Completed.
C27_Witness ==
    /\ job_pc = "join"
    /\ Len(finished) = 2
    /\ chunks[finished[1]] = "Failed"
    /\ f_status[finished[1]] = 200
    /\ chunks[finished[2]] = "Completed"
    /\ bytes_per_chunk[finished[2]] > 0


\* C28: when fetchers have failed, the error download_with_workers returns is
\* the error of the failed fetcher of the smallest chunk id, whichever failed
\* first in time.
C28_LowestFailedIndexWins ==
    (job_pc = "done" /\ \E i \in ChunkIds : f_result[i] \notin {"none", "Ok"})
        => job_result = f_result[LowestFailed]

\* Two fetchers failed with different errors, the one of the higher index first.
C28_Witness ==
    /\ job_pc = "done"
    /\ Len(finished) = 2
    /\ finished[1] > finished[2]
    /\ f_result[finished[1]] \notin {"none", "Ok"}
    /\ f_result[finished[2]] \notin {"none", "Ok", f_result[finished[1]]}
    /\ job_result = f_result[finished[2]]


\* The body of the response the single-stream function is reading or has read.
Received ==
    CASE s_status = 206 -> Slice(resource, s_range, Len(resource) - s_range)
      [] s_status = 200 -> resource
      [] s_status = 500 /\ s_fn = "download_file_blocking" -> ErrorPage
      [] OTHER -> <<>>

\* The single-stream function has opened its destination.
Opened == s_pc \in {"request", "streaming", "after_loop"}
              \/ (s_pc = "done" /\ s_range # -2)

\* The destination holds nothing but the first bytes of the body of a request
\* for the whole resource.
WrittenFromZero ==
    /\ resume_from = 0
    /\ s_range \in {-2, -1}
    /\ Len(fs[Dest]) <= s_downloaded
    /\ fs[Dest] = Slice(Received, 0, Len(fs[Dest]))

\* The destination holds what it held, followed by the first bytes of the
\* body of a request that starts at the old length.
AppendedToExisting ==
    LET L == Len(fs0[Dest])
    IN  /\ resume_from = L
        /\ s_range \in {-2, IF L > 0 THEN L ELSE -1}
        /\ Len(fs[Dest]) >= L
        /\ Len(fs[Dest]) <= s_downloaded
        /\ Slice(fs[Dest], 0, L) = fs0[Dest]
        /\ Slice(fs[Dest], L, Len(fs[Dest]) - L) = Slice(Received, 0, Len(fs[Dest]) - L)

\* C29: in download_file_async and download_file_blocking, with the
\* destination an existing file: with overwrite (resume set or not) the file
\* is truncated and written from byte 0; otherwise with resume the new bytes
\* follow the existing ones; with neither flag the function fails with
\* "File exists", the file as it was and no request sent.
C29_ExistingDestination ==
    (s_fn \in {"download_file_async", "download_file_blocking"}
        /\ s_pc # "open" /\ Dest \in DOMAIN fs0)
        => /\ (Opened /\ overwrite) => WrittenFromZero
           /\ (Opened /\ ~overwrite) => resume /\ AppendedToExisting
           /\ (~overwrite /\ ~resume)
                 => /\ s_pc = "done"
                    /\ job_result = "FileExists"
                    /\ fs = fs0
                    /\ s_status = 0
                    /\ s_range = -2
           /\ ~Opened => fs = fs0 /\ s_status = 0

\* Both flags set, other content at the destination: the file ends as the
\* resource.
C29_Witness ==
    /\ s_fn = "download_file_async"
    /\ overwrite
    /\ resume
    /\ Dest \in DOMAIN fs0
    /\ fs0[Dest] = Stale
    /\ job_result = "Ok"
    /\ Len(resource) = MaxSize
    /\ fs[Dest] = resource


\* C30: a single-stream download that resumes from L > 0 asks for the bytes
\* from L on. With 206 the received bytes follow the L old ones, and on
\* success the file is the old content followed by the whole body. With 416
\* it fails with "File already complete", with 200 with the cannot-resume
\* error, with any other status with the unexpected-status error, and in each
\* of these failures the file is as it was.
C30_ResumeRequest ==
    (s_fn \in {"download_file_async", "download_file_blocking"}
        /\ resume_from > 0 /\ s_range # -2)
        => /\ resume_from = Len(fs0[Dest])
           /\ s_range = resume_from
           /\ s_status = 206
                 => /\ AppendedToExisting
                    /\ job_result = "Ok" => fs[Dest] = fs0[Dest] \o Received
           /\ s_status \notin {0, 206}
                 => /\ s_pc = "done"
                    /\ fs = fs0
                    /\ job_result = CASE s_status = 416 -> "AlreadyComplete"
                                      [] s_status = 200 -> "CannotResume"
                                      [] OTHER -> UnexpectedStatus(s_status)
                    /\ job_result \notin {"UnexpectedStatus", "Ok"}

\* The first byte of a three-byte resource was on disk; the resumed blocking
\* download received the other two and the file is the resource.
C30_Witness ==
    /\ s_fn = "download_file_blocking"
    /\ resume_from = 1
    /\ s_range = 1
    /\ s_status = 206
    /\ Len(Received) = 2
    /\ job_result = "Ok"
    /\ fs[Dest] = resource


\* C31: download_file_blocking never fails its assertion. Out of the loop
\* with the flag not set, the destination's length is `downloaded`, and a
\* successful return has read the whole body, in the three ways the
\* destination is opened; a function that is out of the loop with the flag
\* set returns the cancelled error (or the error of sync_all), never through
\* the assertion.
C31_AssertionNeverFails ==
    /\ [](s_fn = "download_file_blocking"
            => /\ job_result # "Panic"
               /\ (s_pc = "after_loop" /\ ~interrupted) => Len(fs[Dest]) = s_downloaded
               /\ job_result = "Ok"
                     => /\ Len(fs[Dest]) = s_downloaded
                        /\ s_downloaded = resume_from + Len(Received)
               /\ job_result = "Cancelled" => interrupted)
    /\ [][(s_fn = "download_file_blocking" /\ s_pc = "after_loop" /\ interrupted
              /\ s_pc' = "done")
            => job_result' \in {"Cancelled", "Io"}]_vars

\* The flag was seen inside the loop after a segment had been counted and
\* before it was written: the file is shorter than `downloaded`, and the
\* function returned the cancelled error.
C31_Witness ==
    /\ s_fn = "download_file_blocking"
    /\ job_result = "Cancelled"
    /\ resume_from > 0
    /\ Len(fs[Dest]) > resume_from
    /\ Len(fs[Dest]) < s_downloaded

====
